---- MODULE Spec2Model ----
(***************************************************************************)
(* Model of official/nlp/bert/electra_models.py: the ELECTRA pretraining   *)
(* loss/metric layer and the three model builders (pretrain_model,         *)
(* squad_model, classifier_model).                                         *)
(*                                                                         *)
(* Keras objects are records.  A symbolic tensor is a record naming the    *)
(* layer that produced it (field "layer"), the position of the tensor in   *)
(* that layer's result (field "idx") and what the result is ("what").      *)
(* Floating point values are fixed point integers: losses and accuracies   *)
(* in 1/1000, initializer_range and dropout in 1/100.                      *)
(***************************************************************************)
EXTENDS Integers, Sequences, FiniteSets

VARIABLES
  batch,    \* the tensors fed to the loss layer (the inputs of call)
  layer,    \* <<>> or <<config>>: the ElectraPretrainLossAndMetricLayer
  metrics,  \* the add_metric records of the layer's last call, in order
  op,       \* the last operation performed
  args,     \* the arguments of the last builder call
  ret,      \* the value the last operation returned
  calls     \* the external constructors the last builder called, in order

vars == <<batch, layer, metrics, op, args, ret, calls>>

\* ---------------------------------------------------------------- bounds
MaxPredictions == 2     \* largest max_predictions_per_seq
MaxSeqLength == 2       \* largest seq_length / max_seq_length

\* ------------------------------------------------------- tensor helpers
Max(a, b) == IF a >= b THEN a ELSE b

Abs(a) == IF a >= 0 THEN a ELSE -a

RECURSIVE reduce_sum(_)
reduce_sum(t) == IF Len(t) = 0 THEN 0 ELSE Head(t) + reduce_sum(Tail(t))

\* elementwise product of two tensors of the same length
Mul(s, t) == [i \in 1..Len(s) |-> s[i] * t[i]]

\* 1000 * log(1 + exp(-a)) for a >= 0
Softplus(a) ==
  CASE a = 0 -> 693
    [] a = 1 -> 313
    [] a = 2 -> 127
    [] a = 3 -> 49
    [] OTHER -> 0

\* max(x, 0) - x * z + log(1 + exp(-|x|)), per position, in 1/1000
sigmoid_cross_entropy_with_logits(logits, labels) ==
  [i \in 1..Len(logits) |->
     1000 * Max(logits[i], 0) - 1000 * logits[i] * labels[i]
       + Softplus(Abs(logits[i]))]

\* predictions[i] is the vector of log-probabilities (in 1/1000) over the
\* vocabulary at masked position i; labels are 0-based vocabulary ids
per_example_loss(labels, predictions) ==
  [i \in 1..Len(labels) |-> -predictions[i][labels[i] + 1]]

\* sum(weights * per_example_loss) / (sum(weights) + 1e-5), in 1/1000
weighted_sparse_categorical_crossentropy_loss(labels, predictions, weights) ==
  (100000 * reduce_sum(Mul(per_example_loss(labels, predictions), weights)))
    \div (100000 * reduce_sum(weights) + 1)

\* index (0-based) of the first largest entry
argmax(v) ==
  (CHOOSE i \in 1..Len(v) :
     /\ \A j \in 1..Len(v) : v[j] <= v[i]
     /\ \A j \in 1..(i - 1) : v[j] < v[i]) - 1

sparse_categorical_accuracy(labels, predictions) ==
  [i \in 1..Len(labels) |-> IF argmax(predictions[i]) = labels[i] THEN 1 ELSE 0]

\* mean over the positions of (label = (prediction > 0.5)), in 1/1000
binary_accuracy(labels, predictions) ==
  (1000 * reduce_sum([i \in 1..Len(labels) |->
      IF labels[i] = (IF 1000 * predictions[i] > 500 THEN 1 ELSE 0)
      THEN 1 ELSE 0])) \div Len(labels)

\* -------------------------------------------------------- the loss layer
\* ElectraPretrainLossAndMetricLayer.__init__
ElectraPretrainLossAndMetricLayer(vocab_size, discrim_rate) ==
  [kind |-> "Layer",
   class |-> "ElectraPretrainLossAndMetricLayer",
   config |-> [vocab_size |-> vocab_size, discrim_rate |-> discrim_rate],
   outputs |-> <<"loss">>]

add_metric(value, name, aggregation) ==
  [name |-> name, value |-> value, aggregation |-> aggregation]

\* _add_metrics with the values of total_loss and discriminator_loss exchanged
add_metrics_Exchanged(lm_output, lm_labels, lm_label_weights, lm_example_loss, discrim_output, discrim_label, discrim_loss, tot_loss) ==
  LET accuracy == sparse_categorical_accuracy(lm_labels, lm_output)
      numerator == reduce_sum(Mul(accuracy, lm_label_weights))
      denominator == 100000 * reduce_sum(lm_label_weights) + 1
      masked_lm_accuracy == (100000 * 1000 * numerator) \div denominator
      discrim_accuracy == binary_accuracy(discrim_label, discrim_output)
  IN  << add_metric(discrim_accuracy, "discriminator_accuracy", "mean"),
         add_metric(masked_lm_accuracy, "masked_lm_accuracy", "mean"),
         add_metric(lm_example_loss, "lm_example_loss", "mean"),
         add_metric(discrim_loss, "total_loss", "mean"),
         add_metric(tot_loss, "discriminator_loss", "mean") >>

\* ElectraPretrainLossAndMetricLayer._add_metrics
add_metrics(lm_output, lm_labels, lm_label_weights, lm_example_loss, discrim_output, discrim_label, discrim_loss, tot_loss) ==
  LET accuracy == sparse_categorical_accuracy(lm_labels, lm_output)
      numerator == reduce_sum(Mul(accuracy, lm_label_weights))
      denominator == 100000 * reduce_sum(lm_label_weights) + 1
      masked_lm_accuracy == (100000 * 1000 * numerator) \div denominator
      discrim_accuracy == binary_accuracy(discrim_label, discrim_output)
  IN  << add_metric(discrim_accuracy, "discriminator_accuracy", "mean"),
         add_metric(masked_lm_accuracy, "masked_lm_accuracy", "mean"),
         add_metric(lm_example_loss, "lm_example_loss", "mean"),
         add_metric(tot_loss, "total_loss", "mean"),
         add_metric(discrim_loss, "discriminator_loss", "mean") >>

\* call with the discriminator term left unscaled
call_Unscaled(self, lm_output, lm_label_ids, lm_label_weights, discrim_output, discrim_labels) ==
  LET weights == lm_label_weights
      mask_label_loss ==
        weighted_sparse_categorical_crossentropy_loss(
          lm_label_ids, lm_output, weights)
      discrim_ind_loss ==
        sigmoid_cross_entropy_with_logits(discrim_output, discrim_labels)
      discrim_loss == reduce_sum(discrim_ind_loss)
      loss == mask_label_loss + discrim_loss
  IN  [loss |-> loss,
       metrics |-> add_metrics(lm_output, lm_label_ids, lm_label_weights,
                               mask_label_loss, discrim_output,
                               discrim_labels, discrim_loss, loss)]

\* ElectraPretrainLossAndMetricLayer.call: the loss and the metrics added
call(self, lm_output, lm_label_ids, lm_label_weights, discrim_output, discrim_labels) ==
  LET weights == lm_label_weights
      mask_label_loss ==
        weighted_sparse_categorical_crossentropy_loss(
          lm_label_ids, lm_output, weights)
      discrim_ind_loss ==
        sigmoid_cross_entropy_with_logits(discrim_output, discrim_labels)
      discrim_loss == reduce_sum(discrim_ind_loss)
      loss == mask_label_loss + self.config.discrim_rate * discrim_loss
  IN  [loss |-> loss,
       metrics |-> add_metrics(lm_output, lm_label_ids, lm_label_weights,
                               mask_label_loss, discrim_output,
                               discrim_labels, discrim_loss, loss)]

\* ------------------------------------------------------- Python values
None == [type |-> "NoneType"]

Str(s) == [type |-> "str", value |-> s]

\* Python truth value of None or a string
Truthy(v) == v.type = "str" /\ v.value # ""

\* ---------------------------------------------- external Keras objects
TruncatedNormal(stddev) == [type |-> "TruncatedNormal", stddev |-> stddev]

Input(shape, name, dtype) ==
  [op |-> "Input", name |-> name, shape |-> shape, dtype |-> dtype]

EncoderInputNames == <<"input_word_ids", "input_mask", "input_type_ids">>

\* bert_models.get_transformer_encoder: a network over the three named
\* inputs whose outputs are [sequence_output, pooled_output]
get_transformer_encoder(id, bert_config, sequence_length) ==
  [kind |-> "Model", class |-> "TransformerEncoder", id |-> id,
   config |-> bert_config, sequence_length |-> sequence_length,
   inputs |-> [i \in 1..3 |->
                 Input(sequence_length, EncoderInputNames[i], "int32")],
   outputs |-> <<"sequence_output", "pooled_output">>]

\* hub.KerasLayer(url, trainable=...): a layer, not a model; it owns no
\* named inputs and is called on a list of three tensors
KerasLayer(id, handle, trainable) ==
  [kind |-> "Layer", class |-> "hub.KerasLayer", id |-> id,
   handle |-> handle, trainable |-> trainable,
   inputs |-> <<>>,
   outputs |-> <<"pooled_output", "sequence_output">>]

\* calling a network or layer on tensors: one result per output
Apply(l, inputs) ==
  [i \in 1..Len(l.outputs) |->
     [layer |-> l, idx |-> i, what |-> l.outputs[i], inputs |-> inputs]]

\* tf.keras.Model(inputs={...}, outputs=..., name=...)
Model(id, inputs, outputs, name) ==
  [kind |-> "Model", class |-> "tf.keras.Model", id |-> id, name |-> name,
   inputs |-> inputs,
   outputs |-> [i \in 1..Len(outputs) |-> outputs[i].what],
   output_tensors |-> outputs]

\* models.BertSpanLabeler(network, initializer): reads the per-token
\* output from position 0 of the network's outputs
BertSpanLabeler(network, initializer) ==
  [kind |-> "Model", class |-> "BertSpanLabeler",
   network |-> network, initializer |-> initializer,
   inputs |-> network.inputs,
   sequence_output |-> network.outputs[1],
   outputs |-> <<"start_logits", "end_logits">>]

\* models.BertClassifier(network, num_classes, dropout_rate, initializer)
BertClassifier(network, num_classes, dropout_rate, initializer) ==
  [kind |-> "Model", class |-> "BertClassifier",
   network |-> network, num_classes |-> num_classes,
   dropout_rate |-> dropout_rate, initializer |-> initializer,
   inputs |-> network.inputs,
   outputs |-> <<"predictions">>]

\* models.ElectraPretrainer(...), called on the six inputs it yields
\* (lm_output, sentence_output, discrim_logits, discrim_labels)
ElectraPretrainer(generator_network, discriminator_network, vocab_size, num_classes, sequence_length, last_hidden_dim, num_token_predictions, initializer, output) ==
  [kind |-> "Model", class |-> "ElectraPretrainer",
   generator_network |-> generator_network,
   discriminator_network |-> discriminator_network,
   vocab_size |-> vocab_size, num_classes |-> num_classes,
   sequence_length |-> sequence_length,
   last_hidden_dim |-> last_hidden_dim,
   num_token_predictions |-> num_token_predictions,
   initializer |-> initializer, output |-> output,
   outputs |-> <<"lm_output", "sentence_output",
                 "discrim_logits", "discrim_labels">>]

\* tf.keras.layers.Dropout(rate)(x)
Dropout(rate, x) ==
  [layer |-> [kind |-> "Layer", class |-> "Dropout", rate |-> rate],
   idx |-> 1, what |-> "dropout", inputs |-> <<x>>]

\* tf.keras.layers.Dense(units, kernel_initializer, name)(x)
Dense(units, kernel_initializer, name, x) ==
  [layer |-> [kind |-> "Layer", class |-> "Dense", units |-> units,
              kernel_initializer |-> kernel_initializer, name |-> name],
   idx |-> 1, what |-> name, inputs |-> <<x>>]

\* an entry of the log of external constructor calls
Called(fn, object) == [fn |-> fn, object |-> object]

\* ----------------------------------------------------------- builders
\* the six Input layers of pretrain_model
pretrain_model_inputs(seq_length, max_predictions_per_seq) ==
  << Input(seq_length, "input_word_ids", "int32"),
     Input(seq_length, "input_mask", "int32"),
     Input(seq_length, "input_type_ids", "int32"),
     Input(max_predictions_per_seq, "masked_lm_positions", "int32"),
     Input(max_predictions_per_seq, "masked_lm_ids", "int32"),
     Input(max_predictions_per_seq, "masked_lm_weights", "int32") >>

\* pretrain_model returning the generator encoder instead
pretrain_model_ReturnsGenerator(electra_config, seq_length, max_predictions_per_seq, initializer_arg) ==
  LET inputs == pretrain_model_inputs(seq_length, max_predictions_per_seq)
      masked_lm_ids == inputs[5]
      masked_lm_weights == inputs[6]
      gen_encoder ==
        get_transformer_encoder(1, electra_config.generator_encoder,
                                seq_length)
      discrim_encoder ==
        get_transformer_encoder(2, electra_config.discriminator_encoder,
                                seq_length)
      initializer ==
        IF initializer_arg = None
        THEN TruncatedNormal(
               electra_config.generator_encoder.initializer_range)
        ELSE initializer_arg
      pretrainer_model ==
        ElectraPretrainer(gen_encoder, discrim_encoder,
                          electra_config.generator_encoder.vocab_size, 2,
                          seq_length,
                          electra_config.generator_encoder.hidden_size,
                          max_predictions_per_seq, initializer,
                          "predictions")
      outs == Apply(pretrainer_model, inputs)
      lm_output == outs[1]
      discrim_logits == outs[3]
      discrim_labels == outs[4]
      pretrain_loss_layer ==
        ElectraPretrainLossAndMetricLayer(
          electra_config.generator_encoder.vocab_size,
          electra_config.discriminator_loss_weight)
      output_loss ==
        Apply(pretrain_loss_layer,
              <<lm_output, masked_lm_ids, masked_lm_weights,
                discrim_logits, discrim_labels>>)[1]
      keras_model == Model(3, inputs, <<output_loss>>, "model")
  IN  [ret |-> <<keras_model, gen_encoder>>,
       calls |-> <<Called("get_transformer_encoder", gen_encoder),
                   Called("get_transformer_encoder", discrim_encoder)>>
                 \o (IF initializer_arg = None
                     THEN <<Called("TruncatedNormal", initializer)>>
                     ELSE <<>>)]

\* pretrain_model(electra_config, seq_length, max_predictions_per_seq,
\*                initializer)
pretrain_model(electra_config, seq_length, max_predictions_per_seq, initializer_arg) ==
  LET inputs == pretrain_model_inputs(seq_length, max_predictions_per_seq)
      masked_lm_ids == inputs[5]
      masked_lm_weights == inputs[6]
      gen_encoder ==
        get_transformer_encoder(1, electra_config.generator_encoder,
                                seq_length)
      discrim_encoder ==
        get_transformer_encoder(2, electra_config.discriminator_encoder,
                                seq_length)
      initializer ==
        IF initializer_arg = None
        THEN TruncatedNormal(
               electra_config.generator_encoder.initializer_range)
        ELSE initializer_arg
      pretrainer_model ==
        ElectraPretrainer(gen_encoder, discrim_encoder,
                          electra_config.generator_encoder.vocab_size, 2,
                          seq_length,
                          electra_config.generator_encoder.hidden_size,
                          max_predictions_per_seq, initializer,
                          "predictions")
      outs == Apply(pretrainer_model, inputs)
      lm_output == outs[1]
      discrim_logits == outs[3]
      discrim_labels == outs[4]
      pretrain_loss_layer ==
        ElectraPretrainLossAndMetricLayer(
          electra_config.generator_encoder.vocab_size,
          electra_config.discriminator_loss_weight)
      output_loss ==
        Apply(pretrain_loss_layer,
              <<lm_output, masked_lm_ids, masked_lm_weights,
                discrim_logits, discrim_labels>>)[1]
      keras_model == Model(3, inputs, <<output_loss>>, "model")
  IN  [ret |-> <<keras_model, discrim_encoder>>,
       calls |-> <<Called("get_transformer_encoder", gen_encoder),
                   Called("get_transformer_encoder", discrim_encoder)>>
                 \o (IF initializer_arg = None
                     THEN <<Called("TruncatedNormal", initializer)>>
                     ELSE <<>>)]

\* the three Input layers of the hub branches
hub_inputs(max_seq_length) ==
  << Input(max_seq_length, "input_word_ids", "int32"),
     Input(max_seq_length, "input_mask", "int32"),
     Input(max_seq_length, "input_type_ids", "int32") >>

\* squad_model, the branch "if not hub_module_url"
squad_model_local(bert_config, max_seq_length, initializer) ==
  LET bert_encoder == get_transformer_encoder(1, bert_config, max_seq_length)
  IN  [ret |-> <<BertSpanLabeler(bert_encoder, initializer), bert_encoder>>,
       calls |-> <<Called("get_transformer_encoder", bert_encoder)>>]

\* the hub branch of squad_model keeping the hub module's output order
squad_model_hub_Unswapped(max_seq_length, initializer, hub_module_url, hub_module_trainable) ==
  LET inputs == hub_inputs(max_seq_length)
      core_model == KerasLayer(1, hub_module_url.value, hub_module_trainable)
      result == Apply(core_model, inputs)
      pooled_output == result[1]
      sequence_output == result[2]
      bert_encoder ==
        Model(2, inputs, <<pooled_output, sequence_output>>, "core_model")
  IN  [ret |-> <<BertSpanLabeler(bert_encoder, initializer), bert_encoder>>,
       calls |-> <<Called("hub.KerasLayer", core_model)>>]

\* squad_model, the hub branch
squad_model_hub(max_seq_length, initializer, hub_module_url, hub_module_trainable) ==
  LET inputs == hub_inputs(max_seq_length)
      core_model == KerasLayer(1, hub_module_url.value, hub_module_trainable)
      result == Apply(core_model, inputs)
      pooled_output == result[1]
      sequence_output == result[2]
      bert_encoder ==
        Model(2, inputs, <<sequence_output, pooled_output>>, "core_model")
  IN  [ret |-> <<BertSpanLabeler(bert_encoder, initializer), bert_encoder>>,
       calls |-> <<Called("hub.KerasLayer", core_model)>>]

\* squad_model taking the hub branch for every URL but None
squad_model_NoneOnly(bert_config, max_seq_length, initializer_arg, hub_module_url, hub_module_trainable) ==
  LET initializer ==
        IF initializer_arg = None
        THEN TruncatedNormal(bert_config.initializer_range)
        ELSE initializer_arg
      init_calls ==
        IF initializer_arg = None
        THEN <<Called("TruncatedNormal", initializer)>>
        ELSE <<>>
      r == IF hub_module_url = None
           THEN squad_model_local(bert_config, max_seq_length, initializer)
           ELSE squad_model_hub(max_seq_length, initializer, hub_module_url,
                                hub_module_trainable)
  IN  [ret |-> r.ret, calls |-> init_calls \o r.calls]

\* squad_model(bert_config, max_seq_length, initializer, hub_module_url,
\*             hub_module_trainable)
squad_model(bert_config, max_seq_length, initializer_arg, hub_module_url, hub_module_trainable) ==
  LET initializer ==
        IF initializer_arg = None
        THEN TruncatedNormal(bert_config.initializer_range)
        ELSE initializer_arg
      init_calls ==
        IF initializer_arg = None
        THEN <<Called("TruncatedNormal", initializer)>>
        ELSE <<>>
      r == IF ~Truthy(hub_module_url)
           THEN squad_model_local(bert_config, max_seq_length, initializer)
           ELSE squad_model_hub(max_seq_length, initializer, hub_module_url,
                                hub_module_trainable)
  IN  [ret |-> r.ret, calls |-> init_calls \o r.calls]

\* classifier_model, the branch "if not hub_module_url"
classifier_model_local(bert_config, num_labels, max_seq_length, initializer) ==
  LET bert_encoder == get_transformer_encoder(1, bert_config, max_seq_length)
  IN  [ret |-> <<BertClassifier(bert_encoder, num_labels,
                                bert_config.hidden_dropout_prob,
                                initializer),
                 bert_encoder>>,
       calls |-> <<Called("get_transformer_encoder", bert_encoder)>>]

\* the hub branch of classifier_model always fine-tuning the hub module
classifier_model_hub_AlwaysTrainable(bert_config, num_labels, max_seq_length, initializer, hub_module_url, hub_module_trainable) ==
  LET inputs == hub_inputs(max_seq_length)
      bert_model == KerasLayer(1, hub_module_url.value, TRUE)
      result == Apply(bert_model, inputs)
      pooled_output == result[1]
      dropped == Dropout(bert_config.hidden_dropout_prob, pooled_output)
      output == Dense(num_labels, initializer, "output", dropped)
  IN  [ret |-> <<Model(2, inputs, <<output>>, "model"), bert_model>>,
       calls |-> <<Called("hub.KerasLayer", bert_model)>>]

\* classifier_model, the hub branch
classifier_model_hub(bert_config, num_labels, max_seq_length, initializer, hub_module_url, hub_module_trainable) ==
  LET inputs == hub_inputs(max_seq_length)
      bert_model == KerasLayer(1, hub_module_url.value, hub_module_trainable)
      result == Apply(bert_model, inputs)
      pooled_output == result[1]
      dropped == Dropout(bert_config.hidden_dropout_prob, pooled_output)
      output == Dense(num_labels, initializer, "output", dropped)
  IN  [ret |-> <<Model(2, inputs, <<output>>, "model"), bert_model>>,
       calls |-> <<Called("hub.KerasLayer", bert_model)>>]

\* classifier_model ignoring final_layer_initializer
classifier_model_AlwaysDefault(bert_config, num_labels, max_seq_length, final_layer_initializer, hub_module_url, hub_module_trainable) ==
  LET initializer == TruncatedNormal(bert_config.initializer_range)
      init_calls == <<Called("TruncatedNormal", initializer)>>
      r == IF ~Truthy(hub_module_url)
           THEN classifier_model_local(bert_config, num_labels,
                                       max_seq_length, initializer)
           ELSE classifier_model_hub(bert_config, num_labels, max_seq_length,
                                     initializer, hub_module_url,
                                     hub_module_trainable)
  IN  [ret |-> r.ret, calls |-> init_calls \o r.calls]

\* classifier_model(bert_config, num_labels, max_seq_length,
\*                  final_layer_initializer, hub_module_url,
\*                  hub_module_trainable)
classifier_model(bert_config, num_labels, max_seq_length, final_layer_initializer, hub_module_url, hub_module_trainable) ==
  LET initializer ==
        IF final_layer_initializer # None
        THEN final_layer_initializer
        ELSE TruncatedNormal(bert_config.initializer_range)
      init_calls ==
        IF final_layer_initializer # None
        THEN <<>>
        ELSE <<Called("TruncatedNormal", initializer)>>
      r == IF ~Truthy(hub_module_url)
           THEN classifier_model_local(bert_config, num_labels,
                                       max_seq_length, initializer)
           ELSE classifier_model_hub(bert_config, num_labels, max_seq_length,
                                     initializer, hub_module_url,
                                     hub_module_trainable)
  IN  [ret |-> r.ret, calls |-> init_calls \o r.calls]

\* ------------------------------------------------------ input domains
BertConfigs ==
  { [name |-> "small", vocab_size |-> 2, hidden_size |-> 4,
     initializer_range |-> 2, hidden_dropout_prob |-> 10],
    [name |-> "base", vocab_size |-> 3, hidden_size |-> 8,
     initializer_range |-> 5, hidden_dropout_prob |-> 0] }

SmallConfig == CHOOSE c \in BertConfigs : c.name = "small"

BaseConfig == CHOOSE c \in BertConfigs : c.name = "base"

\* values of discriminator_loss_weight / discrim_rate
Rates == {0, 1, 50}

ElectraConfigs ==
  { [generator_encoder |-> SmallConfig, discriminator_encoder |-> BaseConfig,
     discriminator_loss_weight |-> 50],
    [generator_encoder |-> BaseConfig, discriminator_encoder |-> BaseConfig,
     discriminator_loss_weight |-> 0],
    [generator_encoder |-> BaseConfig, discriminator_encoder |-> SmallConfig,
     discriminator_loss_weight |-> 1] }

\* the initializer argument: absent, or an initializer of the caller
Initializers == {None, [type |-> "GlorotUniform"]}

\* the hub_module_url argument
HubUrls == {None, Str(""), Str("hub://bert")}

NumLabels == {2, 3}

\* the hub_module_trainable argument: omitted, or given
TrainableArgs ==
  { [given |-> FALSE], [given |-> TRUE, value |-> TRUE],
    [given |-> TRUE, value |-> FALSE] }

\* the value bound to hub_module_trainable=True
hub_module_trainable_param(a) == IF a.given THEN a.value ELSE TRUE

\* log-probabilities (1/1000) over a vocabulary of two tokens:
\* (0.9, 0.1) and the tie (0.5, 0.5)
LogProbs == {<<-105, -2303>>, <<-693, -693>>}

Logits == {-1, 2}

\* the batches of max_predictions_per_seq = n masked positions and
\* seq_length = m tokens
Batches(n, m) ==
  [lm_output : [1..n -> LogProbs], lm_label_ids : [1..n -> {0, 1}],
   lm_label_weights : [1..n -> {0, 1}], discrim_output : [1..m -> Logits],
   discrim_labels : [1..m -> {0, 1}]]

\* no tensors are fed while models are only being built
NoBatch == <<>>

\* ------------------------------------------------------------- actions
\* a caller constructs the loss layer directly
NewLayer ==
  \E vocab_size \in {2}, discrim_rate \in Rates :
    /\ layer' = <<ElectraPretrainLossAndMetricLayer(vocab_size, discrim_rate)>>
    /\ metrics' = <<>>
    /\ op' = "ElectraPretrainLossAndMetricLayer"
    /\ args' = [vocab_size |-> vocab_size, discrim_rate |-> discrim_rate]
    /\ ret' = <<>>
    /\ calls' = <<>>
    /\ UNCHANGED batch

\* the training loop runs the loss layer on the batch
LayerCall ==
  /\ layer # <<>>
  /\ batch # NoBatch
  /\ LET r == call(layer[1], batch.lm_output, batch.lm_label_ids,
                   batch.lm_label_weights, batch.discrim_output,
                   batch.discrim_labels)
     IN  /\ ret' = r.loss
         /\ metrics' = r.metrics
  /\ op' = "call"
  /\ UNCHANGED <<batch, layer, args, calls>>

PretrainModel ==
  \E electra_config \in ElectraConfigs, seq_length \in 1..MaxSeqLength,
     max_predictions_per_seq \in 1..MaxPredictions,
     initializer \in Initializers :
    LET r == pretrain_model(electra_config, seq_length,
                            max_predictions_per_seq, initializer)
    IN  /\ ret' = r.ret
        /\ calls' = r.calls
        /\ layer' = <<r.ret[1].output_tensors[1].layer>>
        /\ metrics' = <<>>
        /\ op' = "pretrain_model"
        /\ args' = [electra_config |-> electra_config,
                    seq_length |-> seq_length,
                    max_predictions_per_seq |-> max_predictions_per_seq,
                    initializer |-> initializer]
        /\ UNCHANGED batch

SquadModel ==
  \E bert_config \in BertConfigs, max_seq_length \in 1..MaxSeqLength,
     initializer \in Initializers, hub_module_url \in HubUrls,
     hub_module_trainable \in TrainableArgs :
    LET r == squad_model(bert_config, max_seq_length, initializer,
                         hub_module_url,
                         hub_module_trainable_param(hub_module_trainable))
    IN  /\ ret' = r.ret
        /\ calls' = r.calls
        /\ op' = "squad_model"
        /\ args' = [bert_config |-> bert_config,
                    max_seq_length |-> max_seq_length,
                    initializer |-> initializer,
                    hub_module_url |-> hub_module_url,
                    hub_module_trainable |-> hub_module_trainable]
        /\ UNCHANGED <<batch, layer, metrics>>

ClassifierModel ==
  \E bert_config \in BertConfigs, num_labels \in NumLabels,
     max_seq_length \in 1..MaxSeqLength,
     final_layer_initializer \in Initializers, hub_module_url \in HubUrls,
     hub_module_trainable \in TrainableArgs :
    LET r == classifier_model(bert_config, num_labels, max_seq_length,
                              final_layer_initializer, hub_module_url,
                              hub_module_trainable_param(
                                hub_module_trainable))
    IN  /\ ret' = r.ret
        /\ calls' = r.calls
        /\ op' = "classifier_model"
        /\ args' = [bert_config |-> bert_config,
                    num_labels |-> num_labels,
                    max_seq_length |-> max_seq_length,
                    initializer |-> final_layer_initializer,
                    hub_module_url |-> hub_module_url,
                    hub_module_trainable |-> hub_module_trainable]
        /\ UNCHANGED <<batch, layer, metrics>>

\* ------------------------------------------------------ specifications
\* the builders, as a training script calls them
Init ==
  /\ batch = NoBatch
  /\ layer = <<>>
  /\ metrics = <<>>
  /\ op = "import"
  /\ args = <<>>
  /\ ret = <<>>
  /\ calls = <<>>

Next == PretrainModel \/ SquadModel \/ ClassifierModel

Spec == Init /\ [][Next]_vars

\* the loss layer, constructed and then run on a batch of tensors
InitLoss ==
  /\ \E n \in 1..MaxPredictions, m \in 1..MaxSeqLength : batch \in Batches(n, m)
  /\ layer = <<>>
  /\ metrics = <<>>
  /\ op = "import"
  /\ args = <<>>
  /\ ret = <<>>
  /\ calls = <<>>

NextLoss == NewLayer \/ LayerCall

SpecLoss == InitLoss /\ [][NextLoss]_vars

\* --------------------------------------------------- the loss layer: C1, C7
\* the masked-LM loss of the batch
BatchMaskLabelLoss ==
  weighted_sparse_categorical_crossentropy_loss(
    batch.lm_label_ids, batch.lm_output, batch.lm_label_weights)

\* the summed per-position sigmoid cross-entropy of the batch
BatchDiscrimLoss ==
  reduce_sum(sigmoid_cross_entropy_with_logits(batch.discrim_output,
                                               batch.discrim_labels))

\* C1: after every call of the loss layer the returned loss is
\* mask_label_loss + discrim_rate * discrim_loss, discrim_rate being the
\* value given to the constructor; with discrim_rate = 0 it is
\* mask_label_loss alone.
C1_LossIsWeightedSum ==
  op = "call" =>
    /\ layer[1].config.discrim_rate = args.discrim_rate
    /\ ret = BatchMaskLabelLoss + args.discrim_rate * BatchDiscrimLoss
    /\ (args.discrim_rate = 0 => ret = BatchMaskLabelLoss)

\* a call under discrim_rate 50 where both terms are positive
C1_Witness ==
  /\ op = "call"
  /\ args.discrim_rate = 50
  /\ BatchMaskLabelLoss > 0
  /\ BatchDiscrimLoss > 0
  /\ ret = BatchMaskLabelLoss + 50 * BatchDiscrimLoss

MetricNames ==
  {"discriminator_accuracy", "masked_lm_accuracy", "lm_example_loss",
   "total_loss", "discriminator_loss"}

\* how often a call recorded a metric of that name
Recorded(name) ==
  Cardinality({i \in 1..Len(metrics) : metrics[i].name = name})

\* C7: every call records exactly the five metrics, each once and with mean
\* aggregation; total_loss is the returned loss, lm_example_loss the
\* masked-LM term, discriminator_loss the unscaled discriminator loss, so
\* total_loss = lm_example_loss + discrim_rate * discriminator_loss.
C7_FiveMetrics ==
  op = "call" =>
    /\ Len(metrics) = 5
    /\ \A n \in MetricNames : Recorded(n) = 1
    /\ \A i \in 1..Len(metrics) : metrics[i].aggregation = "mean"
    /\ \A i \in 1..Len(metrics) :
         /\ (metrics[i].name = "total_loss" => metrics[i].value = ret)
         /\ (metrics[i].name = "lm_example_loss" =>
               metrics[i].value = BatchMaskLabelLoss)
         /\ (metrics[i].name = "discriminator_loss" =>
               metrics[i].value = BatchDiscrimLoss)
    /\ \A i, j, k \in 1..Len(metrics) :
         (/\ metrics[i].name = "total_loss"
          /\ metrics[j].name = "lm_example_loss"
          /\ metrics[k].name = "discriminator_loss") =>
           metrics[i].value =
             metrics[j].value
               + layer[1].config.discrim_rate * metrics[k].value

\* a call whose recorded total differs from both recorded terms
C7_Witness ==
  /\ op = "call"
  /\ Len(metrics) = 5
  /\ layer[1].config.discrim_rate = 50
  /\ \E i, j, k \in 1..Len(metrics) :
       /\ metrics[i].name = "total_loss"
       /\ metrics[j].name = "lm_example_loss"
       /\ metrics[k].name = "discriminator_loss"
       /\ metrics[j].value > 0
       /\ metrics[k].value > 0
       /\ metrics[i].value = metrics[j].value + 50 * metrics[k].value

\* ------------------------------------------------ the builders: C2 .. C8
\* layer or model l is n, or has n among the networks and layers its graph
\* is built from
RECURSIVE LayerUses(_, _), TensorUses(_, _)
LayerUses(l, n) ==
  \/ l = n
  \/ /\ "network" \in DOMAIN l
     /\ LayerUses(l.network, n)
  \/ /\ "generator_network" \in DOMAIN l
     /\ \/ LayerUses(l.generator_network, n)
        \/ LayerUses(l.discriminator_network, n)
  \/ /\ "output_tensors" \in DOMAIN l
     /\ \E i \in 1..Len(l.output_tensors) : TensorUses(l.output_tensors[i], n)

TensorUses(t, n) ==
  /\ "layer" \in DOMAIN t
  /\ \/ LayerUses(t.layer, n)
     \/ \E i \in 1..Len(t.inputs) : TensorUses(t.inputs[i], n)

\* the objects the last builder made by calling the external constructor fn
Made(fn) == {i \in 1..Len(calls) : calls[i].fn = fn}

\* <<name, shape>> of each input of a model
InputSignature(m) ==
  [i \in 1..Len(m.inputs) |-> <<m.inputs[i].name, m.inputs[i].shape>>]

\* C2: pretrain_model returns (pretraining model, encoder): the model has
\* exactly the six named inputs, of length seq_length and
\* max_predictions_per_seq, and the loss of the loss/metric layer as its only
\* output; the encoder is the discriminator encoder built from
\* electra_config.discriminator_encoder and is wired into the model.
C2_PretrainModelPair ==
  op = "pretrain_model" =>
    LET m == ret[1]
        e == ret[2]
        out == m.output_tensors[1]
        pre == out.inputs[1].layer
    IN  /\ Len(ret) = 2
        /\ m.kind = "Model"
        /\ InputSignature(m) =
             << <<"input_word_ids", args.seq_length>>,
                <<"input_mask", args.seq_length>>,
                <<"input_type_ids", args.seq_length>>,
                <<"masked_lm_positions", args.max_predictions_per_seq>>,
                <<"masked_lm_ids", args.max_predictions_per_seq>>,
                <<"masked_lm_weights", args.max_predictions_per_seq>> >>
        /\ Len(m.output_tensors) = 1
        /\ out.layer.class = "ElectraPretrainLossAndMetricLayer"
        /\ out.what = "loss"
        /\ out.layer.config.discrim_rate =
             args.electra_config.discriminator_loss_weight
        /\ <<out.inputs[1].what, out.inputs[2].name, out.inputs[3].name,
             out.inputs[4].what, out.inputs[5].what>> =
             <<"lm_output", "masked_lm_ids", "masked_lm_weights",
               "discrim_logits", "discrim_labels">>
        /\ e = pre.discriminator_network
        /\ e.kind = "Model"
        /\ e.config = args.electra_config.discriminator_encoder
        /\ \E i \in Made("get_transformer_encoder") : calls[i].object = e
        /\ LayerUses(m, e)

\* pretrain_model was called with a generator and a discriminator of the
\* same configuration and returned the second encoder it built
C2_Witness ==
  /\ op = "pretrain_model"
  /\ args.electra_config.generator_encoder =
       args.electra_config.discriminator_encoder
  /\ args.seq_length # args.max_predictions_per_seq
  /\ ret[2] = calls[2].object
  /\ ret[2] # calls[1].object
  /\ LayerUses(ret[1], ret[2])

\* C3: squad_model and classifier_model build the encoder locally, and load
\* no hub module, exactly when hub_module_url is None or empty; otherwise
\* they load the hub module at that URL once and never call
\* get_transformer_encoder.  The model returned first is built over the
\* encoder returned second.
C3_EncoderSource ==
  op \in {"squad_model", "classifier_model"} =>
    /\ IF args.hub_module_url = None \/ args.hub_module_url = Str("")
       THEN /\ Cardinality(Made("get_transformer_encoder")) = 1
            /\ Made("hub.KerasLayer") = {}
            /\ \A i \in Made("get_transformer_encoder") :
                 /\ calls[i].object.config = args.bert_config
                 /\ calls[i].object.sequence_length = args.max_seq_length
                 /\ calls[i].object = ret[2]
       ELSE /\ Cardinality(Made("hub.KerasLayer")) = 1
            /\ Made("get_transformer_encoder") = {}
            /\ \A i \in Made("hub.KerasLayer") :
                 /\ calls[i].object.handle = args.hub_module_url.value
                 /\ LayerUses(ret[2], calls[i].object)
    /\ LayerUses(ret[1], ret[2])
    /\ ret[1] # ret[2]

\* squad_model was given the empty URL and built its encoder locally
C3_Witness ==
  /\ op = "squad_model"
  /\ args.hub_module_url = Str("")
  /\ Cardinality(Made("get_transformer_encoder")) = 1
  /\ ret[1].network = ret[2]

\* the initializer of the head of the model returned first
HeadInitializer ==
  CASE op = "pretrain_model" ->
         ret[1].output_tensors[1].inputs[1].layer.initializer
    [] "initializer" \in DOMAIN ret[1] -> ret[1].initializer
    [] OTHER -> ret[1].output_tensors[1].layer.kernel_initializer

\* the initializer_range the default initializer is built from
ConfigInitializerRange ==
  IF op = "pretrain_model"
  THEN args.electra_config.generator_encoder.initializer_range
  ELSE args.bert_config.initializer_range

\* C5: the head initializer is TruncatedNormal(stddev=initializer_range) of
\* the config when the initializer argument is None; otherwise it is the
\* argument, unchanged, and no TruncatedNormal is built.  In both branches.
C5_HeadInitializer ==
  op \in {"pretrain_model", "squad_model", "classifier_model"} =>
    IF args.initializer = None
    THEN /\ HeadInitializer = TruncatedNormal(ConfigInitializerRange)
         /\ Cardinality(Made("TruncatedNormal")) = 1
    ELSE /\ HeadInitializer = args.initializer
         /\ Made("TruncatedNormal") = {}

\* classifier_model, hub branch, with an initializer of the caller
C5_Witness ==
  /\ op = "classifier_model"
  /\ Truthy(args.hub_module_url)
  /\ args.initializer = [type |-> "GlorotUniform"]
  /\ ret[1].output_tensors[1].layer.kernel_initializer = args.initializer

\* C6: with hub_module_url set the hub layer is created with trainable equal
\* to hub_module_trainable (True when omitted); with hub_module_url unset
\* the returned pair is the same for True and False.
C6_HubTrainable ==
  op \in {"squad_model", "classifier_model"} =>
    LET t == IF args.hub_module_trainable.given
             THEN args.hub_module_trainable.value ELSE TRUE
    IN  IF Truthy(args.hub_module_url)
        THEN /\ Made("hub.KerasLayer") # {}
             /\ \A i \in Made("hub.KerasLayer") :
                  /\ calls[i].object.trainable = t
                  /\ LayerUses(ret[1], calls[i].object)
        ELSE \A b \in BOOLEAN :
               ret = IF op = "squad_model"
                     THEN squad_model(args.bert_config, args.max_seq_length,
                                      args.initializer, args.hub_module_url,
                                      b).ret
                     ELSE classifier_model(args.bert_config, args.num_labels,
                                           args.max_seq_length,
                                           args.initializer,
                                           args.hub_module_url, b).ret

\* classifier_model loaded a hub module that is not to be fine-tuned
C6_Witness ==
  /\ op = "classifier_model"
  /\ Truthy(args.hub_module_url)
  /\ args.hub_module_trainable = [given |-> TRUE, value |-> FALSE]
  /\ ret[2].trainable = FALSE

C4_SubModelInterface ==
  op = "classifier_model" =>
    LET local == classifier_model(args.bert_config, args.num_labels,
                                  args.max_seq_length, args.initializer,
                                  None, TRUE).ret[2]
        squad == squad_model(args.bert_config, args.max_seq_length,
                             args.initializer, Str("hub://bert"),
                             TRUE).ret[2]
        names(m) == [i \in 1..Len(m.inputs) |-> m.inputs[i].name]
    IN  /\ ret[1].kind = "Model"
        /\ names(ret[1]) = EncoderInputNames
        /\ ret[2].kind = "Model"
        /\ names(ret[2]) = EncoderInputNames
        /\ ret[2].kind = local.kind
        /\ names(ret[2]) = names(local)
        /\ ret[2].kind = squad.kind
        /\ names(ret[2]) = names(squad)

====
